---------------------------- MODULE Spec2Model ----------------------------
(***************************************************************************)
(* Model of src/src/x509.rs (x509-parser): the X.509 name rendering        *)
(* (x509name_to_string, Display for X509Name), the typed extension         *)
(* accessors of TbsCertificate, Validity::time_to_expiration and           *)
(* TbsCertificate::raw_serial_as_string.                                   *)
(*                                                                         *)
(* Rust Strings are TLA+ strings (Len, \o and SubSeq act on them), byte    *)
(* slices are sequences of 0..255, Result<T, X509Error> is a record with   *)
(* an ok flag and Option<T> a record with a some flag.                     *)
(***************************************************************************)
EXTENDS Integers, Sequences, FiniteSets, TLC

VARIABLES
  rdn_seq,      \* X509Name.rdn_seq: Vec<RelativeDistinguishedName>
  extensions,   \* TbsCertificate.extensions: HashMap<Oid, X509Extension>
  validity,     \* Validity { not_before, not_after }, in clock ticks
  now,          \* the wall clock (Local::now()), in clock ticks
  raw_serial,   \* TbsCertificate.raw_serial: &[u8]
  ret           \* the last call and the value it returned

vars == <<rdn_seq, extensions, validity, now, raw_serial, ret>>

-----------------------------------------------------------------------------
(* Bounds of the model *)

\* most RDNs in an enumerated Name
MaxRdns == 3
\* most attributes, over all its RDNs, in an enumerated Name
MaxAttrs == 3
\* most entries in an enumerated extension map
MaxExts == 2
\* last clock tick of the modelled time line
MaxTime == 7
\* clock ticks per whole second (the sub-second resolution of DateTime)
TicksPerSec == 2
\* most bytes in an enumerated raw serial number
MaxSerialLen == 3

-----------------------------------------------------------------------------
(* Result and Option *)

Ok(v) == [ok |-> TRUE, val |-> v]
Err(e) == [ok |-> FALSE, err |-> e]
Some(v) == [some |-> TRUE, val |-> v]
None == [some |-> FALSE]

InvalidX509Name == "InvalidX509Name"
BerTypeError == "BerTypeError"

NoCall == [op |-> "none"]

-----------------------------------------------------------------------------
(* Hex encodings *)

HexUpperDigits == "0123456789ABCDEF"
HexLowerDigits == "0123456789abcdef"

\* the two hex digits of one byte, high nibble first, over the given alphabet
HexByte(b, digits) ==
  SubSeq(digits, (b \div 16) + 1, (b \div 16) + 1) \o SubSeq(digits, (b % 16) + 1, (b % 16) + 1)

RECURSIVE HexLowerEncode(_)
HexLowerEncode(s) ==
  IF s = <<>> THEN "" ELSE HexByte(Head(s), HexLowerDigits) \o HexLowerEncode(Tail(s))

RECURSIVE HexUpperEncode(_)
\* HEXUPPER.encode(s): two uppercase digits per byte, no separator
HexUpperEncode(s) ==
  IF s = <<>> THEN "" ELSE HexByte(Head(s), HexUpperDigits) \o HexUpperEncode(Tail(s))

-----------------------------------------------------------------------------
(* Decoded values (DerObject) and attribute identifiers *)

StringContents == {"NumericString", "PrintableString", "UTF8String", "IA5String"}
\* contents other than the four above whose as_slice() gives the raw bytes
SliceContents == {"OctetString", "Integer", "T61String"}
\* contents with no byte slice at all
OtherContents == {"Sequence", "Null"}

StrObj(c, s) == [content |-> c, s |-> s]
BytesObj(c, b) == [content |-> c, bytes |-> b]
NoSliceObj(c) == [content |-> c]

\* DerObject::as_slice()
as_slice(obj) ==
  IF obj.content \in SliceContents THEN Ok(obj.bytes) ELSE Err(BerTypeError)

OID_C == "2.5.4.6"
OID_ST == "2.5.4.8"
OID_O == "2.5.4.10"
OID_CN == "2.5.4.3"
\* an identifier the short-name registry does not know
OID_PRIVATE == "1.2.3.4"

\* the identifier-to-short-name registry
oid2sn(oid) ==
  CASE oid = OID_C -> Ok("C")
    [] oid = OID_ST -> Ok("ST")
    [] oid = OID_O -> Ok("O")
    [] oid = OID_CN -> Ok("CN")
    [] OTHER -> Err("NotFound")

\* format!("{:?}", oid)
OidDebug(oid) == "OID(" \o oid \o ")"

-----------------------------------------------------------------------------
(* Name canonicalization *)

attribute_value_to_string_lowerhex(attr, attr_type) ==
  IF attr.content \in StringContents
    THEN Ok(attr.s)
    ELSE IF as_slice(attr).ok
           THEN Ok(HexLowerEncode(as_slice(attr).val))
           ELSE Err(InvalidX509Name)

attribute_value_to_string(attr, attr_type) ==
  IF attr.content \in StringContents
    THEN Ok(attr.s)
    ELSE IF as_slice(attr).ok
           THEN Ok(HexUpperEncode(as_slice(attr).val))
           ELSE Err(InvalidX509Name)

\* the closure of the inner fold: one attribute appended to the RDN's string
attr_step(vec2, attr) ==
  LET val_str == attribute_value_to_string(attr.attr_value, attr.attr_type) IN
  IF ~val_str.ok
    THEN val_str
    ELSE LET sn_str == IF oid2sn(attr.attr_type).ok
                         THEN oid2sn(attr.attr_type).val
                         ELSE OidDebug(attr.attr_type)
             rdn == sn_str \o "=" \o val_str.val
         IN IF Len(vec2) = 0 THEN Ok(rdn) ELSE Ok(vec2 \o " + " \o rdn)

RECURSIVE fold_attrs(_, _)
\* rdn.set.iter().fold(acc2, |acc2, attr| acc2.and_then(...))
fold_attrs(set, acc2) ==
  IF set = <<>>
    THEN acc2
    ELSE fold_attrs(Tail(set), IF acc2.ok THEN attr_step(acc2.val, Head(set)) ELSE acc2)

\* the closure of the outer fold: one RDN appended to the name's string
rdn_step(vec, rdn) ==
  LET v == fold_attrs(rdn.set, Ok("")) IN
  IF ~v.ok
    THEN v
    ELSE IF Len(vec) = 0 THEN Ok(v.val) ELSE Ok(vec \o ", " \o v.val)

RECURSIVE fold_rdns_keep_going(_, _)
fold_rdns_keep_going(rdns, acc) ==
  IF rdns = <<>>
    THEN acc
    ELSE fold_rdns_keep_going(Tail(rdns),
                              rdn_step(IF acc.ok THEN acc.val ELSE "", Head(rdns)))

RECURSIVE fold_rdns(_, _)
\* rdn_seq.iter().fold(acc, |acc, rdn| acc.and_then(...))
fold_rdns(rdns, acc) ==
  IF rdns = <<>>
    THEN acc
    ELSE fold_rdns(Tail(rdns), IF acc.ok THEN rdn_step(acc.val, Head(rdns)) ELSE acc)

x509name_to_string(rdns) == fold_rdns(rdns, Ok(""))

\* <X509Name as Display>::fmt, as seen through to_string()
X509Name_fmt(rdns) ==
  IF x509name_to_string(rdns).ok
    THEN x509name_to_string(rdns).val
    ELSE "<X509Error: Invalid X.509 name>"

-----------------------------------------------------------------------------
(* Typed extension accessors *)

OID_EXT_BC == "2.5.29.19"
OID_EXT_KU == "2.5.29.15"
OID_EXT_EKU == "2.5.29.37"
OID_EXT_POLICYCONSTRAINTS == "2.5.29.36"
OID_EXT_INHIBITANYPOLICY == "2.5.29.54"
OID_EXT_POLICYMAPPINGS == "2.5.29.33"
OID_EXT_SAN == "2.5.29.17"
OID_EXT_NAMECONSTRAINTS == "2.5.29.30"
\* an extension identifier with no typed accessor (subjectKeyIdentifier)
OID_EXT_SKI == "2.5.29.14"

\* a ParsedExtension: the variant and the body it carries
Parsed(variant, body) == [variant |-> variant, body |-> body]
UnsupportedExtension == [variant |-> "UnsupportedExtension"]

\* X509Extension::new (the raw value bytes are read by no accessor)
X509Extension(oid, critical, parsed_extension) ==
  [oid |-> oid, critical |-> critical, parsed_extension |-> parsed_extension]

\* HashMap::get
get(exts, oid) == IF oid \in DOMAIN exts THEN Some(exts[oid]) ELSE None

basic_constraints(exts) ==
  LET ext == get(exts, OID_EXT_BC) IN
  IF ~ext.some
    THEN None
    ELSE IF ext.val.parsed_extension.variant = "BasicConstraints"
           THEN Some(<<ext.val.critical, ext.val.parsed_extension.body>>)
           ELSE None

key_usage(exts) ==
  LET ext == get(exts, OID_EXT_KU) IN
  IF ~ext.some
    THEN None
    ELSE IF ext.val.parsed_extension.variant = "KeyUsage"
           THEN Some(<<ext.val.critical, ext.val.parsed_extension.body>>)
           ELSE None

extended_key_usage(exts) ==
  LET ext == get(exts, OID_EXT_EKU) IN
  IF ~ext.some
    THEN None
    ELSE IF ext.val.parsed_extension.variant = "ExtendedKeyUsage"
           THEN Some(<<ext.val.critical, ext.val.parsed_extension.body>>)
           ELSE None

policy_constraints(exts) ==
  LET ext == get(exts, OID_EXT_POLICYCONSTRAINTS) IN
  IF ~ext.some
    THEN None
    ELSE IF ext.val.parsed_extension.variant = "PolicyConstraints"
           THEN Some(<<ext.val.critical, ext.val.parsed_extension.body>>)
           ELSE None

inhibit_anypolicy(exts) ==
  LET ext == get(exts, OID_EXT_INHIBITANYPOLICY) IN
  IF ~ext.some
    THEN None
    ELSE IF ext.val.parsed_extension.variant = "InhibitAnyPolicy"
           THEN Some(<<ext.val.critical, ext.val.parsed_extension.body>>)
           ELSE None

policy_mappings(exts) ==
  LET ext == get(exts, OID_EXT_POLICYMAPPINGS) IN
  IF ~ext.some
    THEN None
    ELSE IF ext.val.parsed_extension.variant = "PolicyMappings"
           THEN Some(<<ext.val.critical, ext.val.parsed_extension.body>>)
           ELSE None

subject_alternative_name_any_variant(exts) ==
  LET ext == get(exts, OID_EXT_SAN) IN
  IF ~ext.some
    THEN None
    ELSE IF ext.val.parsed_extension.variant # "UnsupportedExtension"
           THEN Some(<<ext.val.critical, ext.val.parsed_extension.body>>)
           ELSE None

subject_alternative_name(exts) ==
  LET ext == get(exts, OID_EXT_SAN) IN
  IF ~ext.some
    THEN None
    ELSE IF ext.val.parsed_extension.variant = "SubjectAlternativeName"
           THEN Some(<<ext.val.critical, ext.val.parsed_extension.body>>)
           ELSE None

name_constraints(exts) ==
  LET ext == get(exts, OID_EXT_NAMECONSTRAINTS) IN
  IF ~ext.some
    THEN None
    ELSE IF ext.val.parsed_extension.variant = "NameConstraints"
           THEN Some(<<ext.val.critical, ext.val.parsed_extension.body>>)
           ELSE None

is_ca_default_true(exts) ==
  IF basic_constraints(exts).some THEN basic_constraints(exts).val[2].ca ELSE TRUE

\* self.basic_constraints().map(|(_, bc)| bc.ca).unwrap_or(false)
is_ca(exts) ==
  IF basic_constraints(exts).some THEN basic_constraints(exts).val[2].ca ELSE FALSE

-----------------------------------------------------------------------------
(* Validity window *)

\* DateTime::timestamp(): whole seconds, sub-second part dropped
timestamp(t) == t \div TicksPerSec

\* (na - now).to_std().ok(): a negative chrono::Duration has no std form
to_std_ok(d) == IF d >= 0 THEN Some(d) ELSE None

time_to_expiration_swapped(v, t) ==
  IF t < v.not_before
    THEN None
    ELSE IF timestamp(t) >= timestamp(v.not_after)
           THEN None
           ELSE to_std_ok(t - v.not_after)

time_to_expiration_no_start_check(v, t) ==
  IF timestamp(t) >= timestamp(v.not_after)
    THEN None
    ELSE to_std_ok(v.not_after - t)

time_to_expiration_full_precision(v, t) ==
  IF t < v.not_before
    THEN None
    ELSE IF t >= v.not_after
           THEN None
           ELSE to_std_ok(v.not_after - t)

\* Validity::time_to_expiration with Local::now() sampled as t
time_to_expiration(v, t) ==
  IF t < v.not_before
    THEN None
    ELSE IF timestamp(t) >= timestamp(v.not_after)
           THEN None
           ELSE to_std_ok(v.not_after - t)

-----------------------------------------------------------------------------
(* Serial number formatting *)

RECURSIVE fold_serial(_, _)
\* raw_serial.iter().fold(a, |a, b| a + &format!("{:02x}:", b))
fold_serial(bytes, a) ==
  IF bytes = <<>>
    THEN a
    ELSE fold_serial(Tail(bytes), a \o HexByte(Head(bytes), HexLowerDigits) \o ":")

\* String::pop(): drops the last character, if there is one
pop(s) == IF Len(s) = 0 THEN s ELSE SubSeq(s, 1, Len(s) - 1)

raw_serial_as_string_no_pop(bytes) == fold_serial(bytes, "")

raw_serial_as_string(bytes) == pop(fold_serial(bytes, ""))

-----------------------------------------------------------------------------
(* The certificates the model is run on *)

Attr(attr_type, attr_value) == [attr_type |-> attr_type, attr_value |-> attr_value]
Rdn(set) == [set |-> set]

AttrOids == {OID_C, OID_ST, OID_O, OID_CN, OID_PRIVATE}

AttrValues ==
  { StrObj("NumericString", "42"), StrObj("PrintableString", "FR"),
    StrObj("UTF8String", "Test1"), StrObj("IA5String", "a@b"),
    StrObj("PrintableString", ""),
    BytesObj("OctetString", <<171, 15>>), BytesObj("T61String", <<70, 82>>),
    BytesObj("Integer", <<0>>), BytesObj("OctetString", <<>>),
    NoSliceObj("Sequence"), NoSliceObj("Null") }

\* every attribute of the model
AllAttrs == {Attr(t, v) : t \in AttrOids, v \in AttrValues}

\* the attributes the longer names are built from
FewAttrs ==
  {Attr(t, v) : t \in {OID_C, OID_PRIVATE},
                v \in { StrObj("PrintableString", "FR"),
                        BytesObj("OctetString", <<171, 15>>),
                        NoSliceObj("Sequence") }}

\* the numbers of attributes of the RDNs of a name: at most MaxRdns RDNs
\* holding at most MaxAttrs attributes in all
RECURSIVE Sum(_)
Sum(sizes) == IF sizes = <<>> THEN 0 ELSE Head(sizes) + Sum(Tail(sizes))

Shapes ==
  {sizes \in UNION {[1..r -> 0..MaxAttrs] : r \in 0..MaxRdns} : Sum(sizes) <= MaxAttrs}

\* the name of the given shape whose attributes are, in order, those of flat
NameOf(sizes, flat) ==
  [i \in 1..Len(sizes) |->
     Rdn(SubSeq(flat, Sum(SubSeq(sizes, 1, i - 1)) + 1, Sum(SubSeq(sizes, 1, i))))]

\* the name tests::test_x509_name builds
TestName ==
  << Rdn(<<Attr(OID_C, StrObj("PrintableString", "FR"))>>),
     Rdn(<<Attr(OID_ST, StrObj("PrintableString", "Some-State"))>>),
     Rdn(<<Attr(OID_O, StrObj("PrintableString", "Internet Widgits Pty Ltd"))>>),
     Rdn(<<Attr(OID_CN, StrObj("PrintableString", "Test1")),
           Attr(OID_CN, StrObj("PrintableString", "Test2"))>>) >>

ExtOids ==
  { OID_EXT_BC, OID_EXT_KU, OID_EXT_EKU, OID_EXT_POLICYCONSTRAINTS,
    OID_EXT_INHIBITANYPOLICY, OID_EXT_POLICYMAPPINGS, OID_EXT_SAN,
    OID_EXT_NAMECONSTRAINTS, OID_EXT_SKI }

\* the bodies the extension parser stores under an identifier
OwnParsed(oid) ==
  CASE oid = OID_EXT_BC ->
         {Parsed("BasicConstraints", [ca |-> c, path_len_constraint |-> "none"]) : c \in BOOLEAN}
    [] oid = OID_EXT_KU -> {Parsed("KeyUsage", "ku")}
    [] oid = OID_EXT_EKU -> {Parsed("ExtendedKeyUsage", "eku")}
    [] oid = OID_EXT_POLICYCONSTRAINTS -> {Parsed("PolicyConstraints", "pc")}
    [] oid = OID_EXT_INHIBITANYPOLICY -> {Parsed("InhibitAnyPolicy", "iap")}
    [] oid = OID_EXT_POLICYMAPPINGS -> {Parsed("PolicyMappings", "pm")}
    [] oid = OID_EXT_SAN -> {Parsed("SubjectAlternativeName", "san")}
    [] oid = OID_EXT_NAMECONSTRAINTS -> {Parsed("NameConstraints", "nc")}
    [] OTHER -> {}

\* a body of another identifier's variant (X509Extension::new takes any)
ForeignParsed(oid) ==
  IF oid = OID_EXT_BC
    THEN Parsed("KeyUsage", "ku")
    ELSE Parsed("BasicConstraints", [ca |-> TRUE, path_len_constraint |-> "none"])

StoredUnder(oid) ==
  {X509Extension(oid, critical, parsed) :
     critical \in BOOLEAN,
     parsed \in OwnParsed(oid) \cup {UnsupportedExtension, ForeignParsed(oid)}}

RECURSIVE ExtMapsOver(_)
\* the maps whose keys are exactly the identifiers of D
ExtMapsOver(D) ==
  IF D = {}
    THEN {<<>>}
    ELSE LET oid == CHOOSE o \in D : TRUE
         IN {m @@ (oid :> e) : m \in ExtMapsOver(D \ {oid}), e \in StoredUnder(oid)}

ExtMaps ==
  UNION {ExtMapsOver(D) : D \in {S \in SUBSET ExtOids : Cardinality(S) <= MaxExts}}

Times == 0..MaxTime
Validities == [not_before : Times, not_after : Times]

SerialBytes == {0, 10, 74, 255}
Serials == UNION {[1..n -> SerialBytes] : n \in 0..MaxSerialLen}

\* a certificate with no name, no extension, a zero validity and no serial
EmptyValidity == [not_before |-> 0, not_after |-> 0]

-----------------------------------------------------------------------------
(* Names: the operations on X509Name *)

InitName ==
  /\ \/ \E sizes \in Shapes :
          \E flat \in [1..Sum(sizes) -> FewAttrs] : rdn_seq = NameOf(sizes, flat)
     \/ \E a \in AllAttrs : rdn_seq = <<Rdn(<<a>>)>>
     \/ rdn_seq = TestName
  /\ extensions = <<>>
  /\ validity = EmptyValidity
  /\ now = 0
  /\ raw_serial = <<>>
  /\ ret = NoCall

X509NameToString ==
  /\ ret' = [op |-> "x509name_to_string", val |-> x509name_to_string(rdn_seq)]
  /\ UNCHANGED <<rdn_seq, extensions, validity, now, raw_serial>>

X509NameDisplay ==
  /\ ret' = [op |-> "to_string", val |-> X509Name_fmt(rdn_seq)]
  /\ UNCHANGED <<rdn_seq, extensions, validity, now, raw_serial>>

AttributeValueToString ==
  /\ \E i \in 1..Len(rdn_seq) :
       \E j \in 1..Len(rdn_seq[i].set) :
         LET attr == rdn_seq[i].set[j] IN
         ret' = [op |-> "attribute_value_to_string", attr |-> attr,
                 val |-> attribute_value_to_string(attr.attr_value, attr.attr_type)]
  /\ UNCHANGED <<rdn_seq, extensions, validity, now, raw_serial>>

NextName == X509NameToString \/ X509NameDisplay \/ AttributeValueToString

SpecName == InitName /\ [][NextName]_vars

-----------------------------------------------------------------------------
(* Extensions: the typed accessors of TbsCertificate *)

InitExt ==
  /\ rdn_seq = <<>>
  /\ extensions \in ExtMaps
  /\ validity = EmptyValidity
  /\ now = 0
  /\ raw_serial = <<>>
  /\ ret = NoCall

BasicConstraints ==
  /\ ret' = [op |-> "basic_constraints", val |-> basic_constraints(extensions)]
  /\ UNCHANGED <<rdn_seq, extensions, validity, now, raw_serial>>

KeyUsage ==
  /\ ret' = [op |-> "key_usage", val |-> key_usage(extensions)]
  /\ UNCHANGED <<rdn_seq, extensions, validity, now, raw_serial>>

ExtendedKeyUsage ==
  /\ ret' = [op |-> "extended_key_usage", val |-> extended_key_usage(extensions)]
  /\ UNCHANGED <<rdn_seq, extensions, validity, now, raw_serial>>

PolicyConstraints ==
  /\ ret' = [op |-> "policy_constraints", val |-> policy_constraints(extensions)]
  /\ UNCHANGED <<rdn_seq, extensions, validity, now, raw_serial>>

InhibitAnypolicy ==
  /\ ret' = [op |-> "inhibit_anypolicy", val |-> inhibit_anypolicy(extensions)]
  /\ UNCHANGED <<rdn_seq, extensions, validity, now, raw_serial>>

PolicyMappings ==
  /\ ret' = [op |-> "policy_mappings", val |-> policy_mappings(extensions)]
  /\ UNCHANGED <<rdn_seq, extensions, validity, now, raw_serial>>

SubjectAlternativeName ==
  /\ ret' = [op |-> "subject_alternative_name", val |-> subject_alternative_name(extensions)]
  /\ UNCHANGED <<rdn_seq, extensions, validity, now, raw_serial>>

NameConstraints ==
  /\ ret' = [op |-> "name_constraints", val |-> name_constraints(extensions)]
  /\ UNCHANGED <<rdn_seq, extensions, validity, now, raw_serial>>

IsCa ==
  /\ ret' = [op |-> "is_ca", val |-> is_ca(extensions)]
  /\ UNCHANGED <<rdn_seq, extensions, validity, now, raw_serial>>

NextExt ==
  \/ BasicConstraints
  \/ KeyUsage
  \/ ExtendedKeyUsage
  \/ PolicyConstraints
  \/ InhibitAnypolicy
  \/ PolicyMappings
  \/ SubjectAlternativeName
  \/ NameConstraints
  \/ IsCa

SpecExt == InitExt /\ [][NextExt]_vars

-----------------------------------------------------------------------------
(* Validity: time_to_expiration against a clock that never runs backwards *)

InitValidity ==
  /\ rdn_seq = <<>>
  /\ extensions = <<>>
  /\ validity \in Validities
  /\ now = 0
  /\ raw_serial = <<>>
  /\ ret = NoCall

TimeToExpiration ==
  /\ \E t \in now..MaxTime :
       /\ now' = t
       /\ ret' = [op |-> "time_to_expiration", val |-> time_to_expiration(validity, t)]
  /\ UNCHANGED <<rdn_seq, extensions, validity, raw_serial>>

NextValidity == TimeToExpiration

SpecValidity == InitValidity /\ [][NextValidity]_vars

-----------------------------------------------------------------------------
(* Serial number: raw_serial_as_string *)

InitSerial ==
  /\ rdn_seq = <<>>
  /\ extensions = <<>>
  /\ validity = EmptyValidity
  /\ now = 0
  /\ raw_serial \in Serials
  /\ ret = NoCall

RawSerialAsString ==
  /\ ret' = [op |-> "raw_serial_as_string", val |-> raw_serial_as_string(raw_serial)]
  /\ UNCHANGED <<rdn_seq, extensions, validity, now, raw_serial>>

NextSerial == RawSerialAsString

SpecSerial == InitSerial /\ [][NextSerial]_vars

-----------------------------------------------------------------------------
(* What the specification says a rendered name is *)

UpperNibbles == <<"0", "1", "2", "3", "4", "5", "6", "7", "8", "9", "A", "B", "C", "D", "E", "F">>
LowerNibbles == <<"0", "1", "2", "3", "4", "5", "6", "7", "8", "9", "a", "b", "c", "d", "e", "f">>

ExpectedPair(b, nibbles) == nibbles[(b \div 16) + 1] \o nibbles[(b % 16) + 1]

RECURSIVE Join(_, _)
\* the strings of strs with sep between each two neighbours
Join(strs, sep) ==
  IF strs = <<>> THEN ""
  ELSE IF Len(strs) = 1 THEN strs[1]
  ELSE strs[1] \o sep \o Join(Tail(strs), sep)

ExpectedHexUpper(bytes) ==
  Join([i \in 1..Len(bytes) |-> ExpectedPair(bytes[i], UpperNibbles)], "")

ExpectedLabel(oid) ==
  CASE oid = "2.5.4.6" -> "C"
    [] oid = "2.5.4.8" -> "ST"
    [] oid = "2.5.4.10" -> "O"
    [] oid = "2.5.4.3" -> "CN"
    [] OTHER -> "OID(" \o oid \o ")"

IsStringKind(obj) ==
  obj.content \in {"NumericString", "PrintableString", "UTF8String", "IA5String"}
HasRawBytes(obj) == "bytes" \in DOMAIN obj
Renderable(obj) == IsStringKind(obj) \/ HasRawBytes(obj)

ExpectedValue(obj) == IF IsStringKind(obj) THEN obj.s ELSE ExpectedHexUpper(obj.bytes)

AttrString(a) == ExpectedLabel(a.attr_type) \o "=" \o ExpectedValue(a.attr_value)
RdnString(rdn) == Join([j \in 1..Len(rdn.set) |-> AttrString(rdn.set[j])], " + ")
NameString(name) == Join([i \in 1..Len(name) |-> RdnString(name[i])], ", ")

AllRenderable(name) ==
  \A i \in 1..Len(name) : \A j \in 1..Len(name[i].set) : Renderable(name[i].set[j].attr_value)
HasUnrenderable(name) == ~AllRenderable(name)
NoEmptyRdn(name) == \A i \in 1..Len(name) : name[i].set # <<>>

-----------------------------------------------------------------------------
(* Claims about names, under SpecName *)

\* C1: for every Name with at least one RDN and no unrenderable attribute the
\* render succeeds and is exactly the "<label>=<value>" strings joined with
\* " + " inside each RDN and the RDN strings joined with ", ", in stored order;
\* the name of tests::test_x509_name renders to
\* "C=FR, ST=Some-State, O=Internet Widgits Pty Ltd, CN=Test1 + CN=Test2".
C1_RenderIsJoin ==
  (Len(rdn_seq) >= 1 /\ AllRenderable(rdn_seq)) =>
    /\ ret.op = "x509name_to_string" => ret.val = Ok(NameString(rdn_seq))
    /\ ret.op = "to_string" => ret.val = NameString(rdn_seq)
    /\ (ret.op = "to_string" /\ rdn_seq = TestName) =>
         ret.val = "C=FR, ST=Some-State, O=Internet Widgits Pty Ltd, CN=Test1 + CN=Test2"

\* The statement of C1 restricted to the names none of whose RDNs is empty.
RenderIsJoinWhenNoRdnIsEmpty ==
  (Len(rdn_seq) >= 1 /\ AllRenderable(rdn_seq) /\ NoEmptyRdn(rdn_seq)) =>
    /\ ret.op = "x509name_to_string" => ret.val = Ok(NameString(rdn_seq))
    /\ ret.op = "to_string" => ret.val = NameString(rdn_seq)
    /\ (ret.op = "to_string" /\ rdn_seq = TestName) =>
         ret.val = "C=FR, ST=Some-State, O=Internet Widgits Pty Ltd, CN=Test1 + CN=Test2"

C8_UnrenderableFailsWholeRender ==
  HasUnrenderable(rdn_seq) =>
    /\ ret.op = "x509name_to_string" => ret.val = [ok |-> FALSE, err |-> "InvalidX509Name"]
    /\ ret.op = "to_string" => ret.val = "<X509Error: Invalid X.509 name>"

\* the unrenderable attribute in the middle RDN of three, the others renderable
C8_Witness ==
  /\ ret.op = "x509name_to_string"
  /\ Len(rdn_seq) = 3
  /\ AllRenderable(<<rdn_seq[1], rdn_seq[3]>>)
  /\ NoEmptyRdn(rdn_seq)
  /\ HasUnrenderable(<<rdn_seq[2]>>)
  /\ ~ret.val.ok

\* C10: the empty Name renders to the empty string, and a Name with an RDN of
\* zero attributes at any position renders without failing, that RDN giving an
\* empty segment: the result is the ", "-join of all the RDN segments.
C10_EmptyRdnIsEmptySegment ==
  /\ (ret.op = "x509name_to_string" /\ rdn_seq = <<>>) => ret.val = Ok("")
  /\ (/\ ret.op = "x509name_to_string"
      /\ AllRenderable(rdn_seq)
      /\ \E i \in 1..Len(rdn_seq) : rdn_seq[i].set = <<>>) =>
       /\ ret.val.ok
       /\ ret.val.val = NameString(rdn_seq)

-----------------------------------------------------------------------------
(* Claims about the typed accessors, under SpecExt *)

AccessorOid ==
  [ basic_constraints |-> "2.5.29.19", key_usage |-> "2.5.29.15",
    extended_key_usage |-> "2.5.29.37", policy_constraints |-> "2.5.29.36",
    inhibit_anypolicy |-> "2.5.29.54", policy_mappings |-> "2.5.29.33",
    subject_alternative_name |-> "2.5.29.17", name_constraints |-> "2.5.29.30" ]

AccessorVariant ==
  [ basic_constraints |-> "BasicConstraints", key_usage |-> "KeyUsage",
    extended_key_usage |-> "ExtendedKeyUsage", policy_constraints |-> "PolicyConstraints",
    inhibit_anypolicy |-> "InhibitAnyPolicy", policy_mappings |-> "PolicyMappings",
    subject_alternative_name |-> "SubjectAlternativeName",
    name_constraints |-> "NameConstraints" ]

StoredAs(oid, variant) ==
  /\ oid \in DOMAIN extensions
  /\ extensions[oid].parsed_extension.variant = variant

\* C2: each of the eight typed accessors returns Some if and only if its own
\* identifier is a key of the map and the body stored under it is of its
\* expected variant; the Some then carries that extension's critical flag and
\* that body; in every other case the accessor returns None.
C2_AccessorSomeIffStoredVariant ==
  ret.op \in DOMAIN AccessorOid =>
    LET oid == AccessorOid[ret.op]
        present == StoredAs(oid, AccessorVariant[ret.op])
    IN /\ ret.val.some <=> present
       /\ present =>
            ret.val = [some |-> TRUE,
                       val |-> <<extensions[oid].critical, extensions[oid].parsed_extension.body>>]
       /\ ~present => ret.val = [some |-> FALSE]

\* the accessor's identifier is a key, the body stored is of another variant
C2_Witness ==
  /\ ret.op = "subject_alternative_name"
  /\ "2.5.29.17" \in DOMAIN extensions
  /\ extensions["2.5.29.17"].parsed_extension.variant = "BasicConstraints"
  /\ Cardinality(DOMAIN extensions) = 2
  /\ ret.val = [some |-> FALSE]

\* C3: is_ca is true if and only if basic constraints are stored under their
\* identifier with ca = true, that is if and only if basic_constraints() is
\* Some with ca = true; it is false whenever that identifier is absent or
\* holds another body, whatever else the map holds and whatever the critical
\* flag.
C3_IsCaIffBasicConstraintsCa ==
  ret.op = "is_ca" =>
    /\ ret.val = (/\ StoredAs("2.5.29.19", "BasicConstraints")
                  /\ extensions["2.5.29.19"].parsed_extension.body.ca)
    /\ ret.val = (/\ basic_constraints(extensions).some
                  /\ basic_constraints(extensions).val[2].ca)

\* no basic-constraints key, while another key holds a CA=true body
C3_Witness ==
  /\ ret.op = "is_ca"
  /\ "2.5.29.19" \notin DOMAIN extensions
  /\ \E oid \in DOMAIN extensions :
       /\ extensions[oid].parsed_extension.variant = "BasicConstraints"
       /\ extensions[oid].parsed_extension.body.ca
       /\ extensions[oid].critical
  /\ ret.val = FALSE

-----------------------------------------------------------------------------
(* Claims about the validity window, under SpecValidity; now is the time the
   call sampled *)

\* the whole second a time lies in
WholeSecond(t) ==
  CHOOSE s \in 0..t : s * TicksPerSec <= t /\ t < (s + 1) * TicksPerSec

\* C4: time_to_expiration is None when now is strictly before not_before
\* (at full precision), and None when now in whole seconds is at or past
\* not_after in whole seconds, even if sub-second time remains.
C4_NoneWhenNotCurrentlyValid ==
  ret.op = "time_to_expiration" =>
    /\ now < validity.not_before => ret.val = [some |-> FALSE]
    /\ WholeSecond(now) >= WholeSecond(validity.not_after) => ret.val = [some |-> FALSE]

\* sub-second time remains in the second not_after lies in
C4_Witness ==
  /\ ret.op = "time_to_expiration"
  /\ validity.not_before <= now
  /\ now < validity.not_after
  /\ WholeSecond(now) = WholeSecond(validity.not_after)
  /\ ret.val = [some |-> FALSE]

\* C5 as stated: for all not_before <= now < not_after the result is present,
\* equals not_after - now exactly and is strictly positive.
C5_PresentWheneverBeforeNotAfter ==
  (/\ ret.op = "time_to_expiration"
   /\ validity.not_before <= now
   /\ now < validity.not_after) =>
    /\ ret.val = [some |-> TRUE, val |-> validity.not_after - now]
    /\ validity.not_after - now > 0

\* C5 as amended: for all not_before <= now with now in whole seconds strictly
\* before not_after in whole seconds, the result is present, equals
\* not_after - now exactly and is strictly positive.
C5_PresentWhenWholeSecondBefore ==
  (/\ ret.op = "time_to_expiration"
   /\ validity.not_before <= now
   /\ WholeSecond(now) < WholeSecond(validity.not_after)) =>
    /\ ret.val = [some |-> TRUE, val |-> validity.not_after - now]
    /\ ret.val.val > 0

\* evaluated at not_before itself, with a fraction of a second in the result
C5_Witness ==
  /\ ret.op = "time_to_expiration"
  /\ validity.not_before = now
  /\ ret.val.some
  /\ ret.val.val = validity.not_after - now
  /\ ret.val.val % TicksPerSec # 0

\* C9: for an inverted window (not_before strictly after not_after)
\* time_to_expiration is None at every current time.
C9_InvertedWindowNeverValid ==
  (ret.op = "time_to_expiration" /\ validity.not_before > validity.not_after) =>
    ret.val = [some |-> FALSE]

\* an inverted window asked before both of its ends
C9_Witness ==
  /\ ret.op = "time_to_expiration"
  /\ validity.not_before > validity.not_after
  /\ WholeSecond(now) < WholeSecond(validity.not_after)
  /\ ret.val = [some |-> FALSE]

-----------------------------------------------------------------------------
(* Claims about the serial number, under SpecSerial *)

\* C6: for n bytes raw_serial_as_string is the lowercase two-digit hex pairs
\* of the bytes in stored order, leading zero bytes kept, with ':' between
\* them and none at the end: n groups, n - 1 colons and length 3n - 1 for
\* n >= 1, the empty string for n = 0.
C6_SerialIsColonSeparatedLowerHex ==
  ret.op = "raw_serial_as_string" =>
    LET n == Len(raw_serial) IN
    /\ n = 0 => ret.val = ""
    /\ n >= 1 =>
         /\ Len(ret.val) = 3 * n - 1
         /\ \A i \in 1..n :
              SubSeq(ret.val, 3 * i - 2, 3 * i - 1) = ExpectedPair(raw_serial[i], LowerNibbles)
         /\ \A i \in 1..(n - 1) : SubSeq(ret.val, 3 * i, 3 * i) = ":"

\* a serial with a leading zero byte
C6_Witness ==
  /\ ret.op = "raw_serial_as_string"
  /\ raw_serial = <<0, 10, 255>>
  /\ ret.val = "00:0a:ff"

=============================================================================
